---- MODULE Spec2Model ----
(***************************************************************************)
(* Model of the rainfall-series-transformation consolidation driver        *)
(* (agents/consolidator.py) together with the extractor and validators it  *)
(* calls (agents/extractors.py, agents/validators.py).                     *)
(*                                                                         *)
(* Python values are represented as follows:                               *)
(*   - an optional value (None or v) is the sequence <<>> or <<v>>;        *)
(*   - an insertion-ordered dict is the sequence of its items;             *)
(*   - a call that may raise returns [exc |-> name, val |-> <<v>>], with   *)
(*     exc = "" when it returns normally;                                  *)
(*   - a file is [exists |-> BOOLEAN, bytes |-> sequence of chunks].       *)
(***************************************************************************)
EXTENDS Integers, Sequences, FiniteSets, TLC

\* ------------------------------------------------------------------ bounds
NumCities == 3
TimeSteps == 2

\* ------------------------------------------------------- python primitives
None == <<>>
Some(v) == <<v>>

Ok(v) == [exc |-> "", val |-> <<v>>]
Raise(e) == [exc |-> e, val |-> <<>>]

RECURSIVE SeqProduct(_)
SeqProduct(ns) == IF ns = <<>> THEN 1 ELSE Head(ns) * SeqProduct(Tail(ns))

\* reduce(lambda x, y: x*y, [len(arg) for arg in args])
EstimateCombinations(args) == SeqProduct([k \in 1..Len(args) |-> Len(args[k])])

\* the increasing sequence of the elements of a finite set of integers
RECURSIVE SortedSeq(_)
SortedSeq(S) ==
    IF S = {} THEN <<>>
    ELSE LET m == CHOOSE x \in S : \A y \in S : x <= y
         IN <<m>> \o SortedSeq(S \ {m})

\* np.argwhere(values == target): the indices holding the target, ascending
ArgWhere(values, target) == SortedSeq({k \in 1..Len(values) : values[k] = target})

\* dict.get(key) on a dict modelled as a record
DictGet(d, key) == IF key \in DOMAIN d THEN Some(d[key]) ELSE None

\* bool(x) of an optional number: None and 0 are falsy
Truthy(x) == x # None /\ x[1] # 0

\* ------------------------------------------------------------- input data
\* The cities dictionary (the resolved-coordinates file): a complete entry,
\* an entry whose nearest latitude is missing, and an entry whose nearest
\* cell is (2, 2).
CityDetails(c) ==
    CASE (c - 1) % 3 = 0 -> [nearest |-> [lat |-> 1, lon |-> 1]]
      [] (c - 1) % 3 = 1 -> [nearest |-> [lon |-> 1]]
      [] OTHER           -> [nearest |-> [lat |-> 2, lon |-> 2]]

\* Mask and data of the precipitation variable pr[time, lat, lon]: cell (2, 2)
\* is masked at every step, cell (1, 2) at the first step only, and cell
\* (2, 1) holds an unmasked NaN (None) at the first step.
PrMask(t, i, j) == (i = 2 /\ j = 2) \/ (i = 1 /\ j = 2 /\ t = 1)
PrData(t, i, j) == IF i = 2 /\ j = 1 /\ t = 1 THEN None ELSE Some(t + i + 2 * j)

MakeGrid(lats, lons, steps) ==
    [ time |-> [units  |-> <<"days", "since", 100>>,
                values |-> [t \in 1..steps |-> t - 1]],
      lat  |-> [units |-> <<"degrees_north">>, values |-> lats],
      lon  |-> [units |-> <<"degrees_east">>, values |-> lons],
      pr   |-> [units |-> <<"mm">>,
                data  |-> [t \in 1..steps |-> [i \in 1..Len(lats) |->
                              [j \in 1..Len(lons) |-> PrData(t, i, j)]]],
                mask  |-> [t \in 1..steps |-> [i \in 1..Len(lats) |->
                              [j \in 1..Len(lons) |-> PrMask(t, i, j)]]]] ]

\* CLIMATE_MODELS[:2] and two of the SSP_SCENARIOS
ClimateModels == <<"ACCESS-CM2", "ACCESS-ESM1-5">>
SspScenarios == <<"SSP245", "SSP585">>

\* The source directory: of the four (model, scenario) pairs, one has a full
\* grid, one has no file, one has a grid on other axes, and one has a grid
\* with an empty time axis.
SourceDir(model_name, scenario_name) ==
    CASE model_name = "ACCESS-CM2" /\ scenario_name = "SSP245" ->
             Some(MakeGrid(<<1, 2>>, <<1, 2>>, TimeSteps))
      [] model_name = "ACCESS-CM2" /\ scenario_name = "SSP585" ->
             None
      [] model_name = "ACCESS-ESM1-5" /\ scenario_name = "SSP245" ->
             Some(MakeGrid(<<1, 3>>, <<1, 3>>, TimeSteps))
      [] model_name = "ACCESS-ESM1-5" /\ scenario_name = "SSP585" ->
             Some(MakeGrid(<<1, 2>>, <<1, 2>>, 0))
      [] OTHER -> None

\* ------------------------------------------------------------- validators
\* CoordinatesValidator.get_coordinates
GetCoordinates(details) ==
    LET nearest   == IF "nearest" \in DOMAIN details THEN details.nearest ELSE <<>>
        latitude  == DictGet(nearest, "lat")
        longitude == DictGet(nearest, "lon")
    IN IF ~(Truthy(latitude) /\ Truthy(longitude))
       THEN Raise("CoordinatesNotAvailableError")
       ELSE Ok(<<latitude[1], longitude[1]>>)

\* the keys of INPUT_FILENAME_FORMAT
KnownScenarios == {"Historico", "SSP245", "SSP585"}

\* a validation that reports a missing file as an invalid scenario
ValidatePathWrongError(model_name, scenario_name) ==
    IF scenario_name \notin KnownScenarios \/ SourceDir(model_name, scenario_name) = None
    THEN Raise("InvalidClimateScenarioError")
    ELSE Ok(<<model_name, scenario_name>>)

\* PathValidator.validate_precipitation_source_path
ValidatePrecipitationSourcePath(model_name, scenario_name) ==
    IF scenario_name \notin KnownScenarios
    THEN Raise("InvalidClimateScenarioError")
    ELSE IF SourceDir(model_name, scenario_name) = None
         THEN Raise("InvalidSourceFileError")
         ELSE Ok(<<model_name, scenario_name>>)

\* MaskedArray.filled(np.nan) at one element, then np.nan_to_num(nan=0)
Filled(pr, t, i, j) == IF pr.mask[t][i][j] THEN None ELSE pr.data[t][i][j]
NanToNum(x) == IF x = None THEN 0 ELSE x[1]

\* a normalisation that leaves the masked steps out instead of zeroing them
NormalizeDataSeriesCompressed(pr, latitude_index, longitude_index) ==
    LET kept == SortedSeq({t \in 1..Len(pr.data) :
                              ~pr.mask[t][latitude_index][longitude_index]})
    IN [k \in 1..Len(kept) |->
           NanToNum(pr.data[kept[k]][latitude_index][longitude_index])]

\* PrecipitationValidator.normalize_data_series
NormalizeDataSeries(pr, latitude_index, longitude_index) ==
    [t \in 1..Len(pr.data) |-> NanToNum(Filled(pr, t, latitude_index, longitude_index))]

\* -------------------------------------------------------------- extractor
\* NetCDFExtractor.__init__ / _get_dataset_variables
NetCDFExtractor(source_path) == SourceDir(source_path[1], source_path[2])[1]

\* NetCDFExtractor._parse_reference_date
ParseReferenceDate(variables) ==
    variables.time.units[Len(variables.time.units)]

\* a lookup that snaps each target to the nearest axis value
FindNearestIndices(variables, target_latitude, target_longitude) ==
    LET near(values, target) ==
            CHOOSE i \in 1..Len(values) :
                \A k \in 1..Len(values) :
                    (IF values[i] < target THEN target - values[i] ELSE values[i] - target)
                      <= (IF values[k] < target THEN target - values[k]
                          ELSE values[k] - target)
    IN Ok(<< near(variables.lat.values, target_latitude),
             near(variables.lon.values, target_longitude) >>)

\* NetCDFExtractor._find_coordinates_indices
FindCoordinatesIndices(variables, target_latitude, target_longitude) ==
    LET lats == ArgWhere(variables.lat.values, target_latitude)
        lons == ArgWhere(variables.lon.values, target_longitude)
    IN IF lats = <<>> \/ lons = <<>>
       THEN Raise("InvalidTargetCoordinatesError")
       ELSE Ok(<<lats[1], lons[1]>>)

\* NetCDFExtractor._relative_to_absolute_date
RelativeToAbsoluteDate(variables, data_series) ==
    LET reference_date == ParseReferenceDate(variables)
        dates == [t \in 1..Len(variables.time.values) |->
                     reference_date + variables.time.values[t]]
    IN [index \in 1..Len(data_series) |-> <<dates[index], data_series[index]>>]

\* NetCDFExtractor.extract_precipitation
ExtractPrecipitation(variables, target_latitude, target_longitude) ==
    LET indices == FindCoordinatesIndices(variables, target_latitude, target_longitude)
    IN IF indices.exc # "" THEN indices
       ELSE Ok(RelativeToAbsoluteDate(
                 variables,
                 NormalizeDataSeries(variables.pr, indices.val[1][1], indices.val[1][2])))

\* ndarray.any() of the (datetime, value) array: a datetime object is always
\* truthy, a number is truthy when it is not 0
DateIsTruthy(date) == TRUE

\* a test that holds of every array, the empty one included
SeriesIsNotNone(data_series) == TRUE

SeriesAny(data_series) ==
    \E k \in 1..Len(data_series) :
        DateIsTruthy(data_series[k][1]) \/ data_series[k][2] # 0

\* ------------------------------------------------------------ persistence
Absent == [exists |-> FALSE, bytes |-> <<>>]

\* Path(self.temp_dir, RECOVERY_FILENAME_FORMAT.format(model=..., scenario=...))
RecoveryPath(model, scenario) == <<"recovery", model, scenario>>
\* Path(self.temp_dir, TEMP_FILE_NAME)
TempFilePath == <<"dirty", "", "">>

AllPairs == {<<ClimateModels[m], SspScenarios[s]>> :
                 m \in 1..Len(ClimateModels), s \in 1..Len(SspScenarios)}
Paths == {RecoveryPath(p[1], p[2]) : p \in AllPairs} \cup {TempFilePath}

\* a dump that leaves out the last item of the dict
PickleWithoutLast(recovery_data) ==
    [k \in 1..(Len(recovery_data) - 1) |-> [op |-> "ITEM", item |-> <<recovery_data[k]>>]]
        \o <<[op |-> "STOP", item |-> <<>>]>>

\* pickle.dump: the stream of the dict's items, closed by the STOP opcode
Pickle(recovery_data) ==
    [k \in 1..Len(recovery_data) |-> [op |-> "ITEM", item |-> <<recovery_data[k]>>]]
        \o <<[op |-> "STOP", item |-> <<>>]>>

\* pickle.load: fails on an empty, truncated or garbled stream
Unpickle(bytes) ==
    IF bytes = <<>> THEN Raise("EOFError")
    ELSE IF \/ bytes[Len(bytes)].op # "STOP"
            \/ \E k \in 1..(Len(bytes) - 1) : bytes[k].op # "ITEM"
         THEN Raise("UnpicklingError")
         ELSE Ok([k \in 1..(Len(bytes) - 1) |-> bytes[k].item[1]])

\* Consolidator._validate_recovery_path
ValidateRecoveryPath(files, model, scenario) ==
    LET recovery_file == RecoveryPath(model, scenario)
    IN IF files[recovery_file].exists THEN Some(recovery_file) ELSE None

\* Consolidator._recover_data_from_file
RecoverDataFromFile(files, path_to_file) == Unpickle(files[path_to_file].bytes)

\* a dump that writes the final path in place
DirtyPathInPlace(model_name, scenario_name) == RecoveryPath(model_name, scenario_name)

\* the dirty path _dump_recovery_data writes to before it renames
DirtyPath(model_name, scenario_name) == TempFilePath

\* ---------------------------------------------------------- ordered dicts
Keys(d) == {d[k].city : k \in 1..Len(d)}

\* a pop that removes nothing
PopKeepsKey(keys, key) == keys

\* dict.pop(key, None) on the cities still to process (a sequence of keys)
Pop(keys, key) == SelectSeq(keys, LAMBDA c : c # key)

\* d[key] = value on a dict of entries keyed by city
DictSet(d, entry) ==
    IF entry.city \in Keys(d)
    THEN [k \in 1..Len(d) |-> IF d[k].city = entry.city THEN entry ELSE d[k]]
    ELSE Append(d, entry)

\* ------------------------------------------------------------ the counters
Ratio(n, d) == [num |-> n, den |-> d]

\* Consolidator.__init__: self.state
InitialState(ms, ss, cs) ==
    [ total        |-> EstimateCombinations(<<ms, ss, cs>>),
      processed    |-> 0,
      error        |-> 0,
      skipped      |-> 0,
      success      |-> 0,
      success_rate |-> Ratio(0, 1),
      process_rate |-> Ratio(0, 1) ]

\* an error count that forgets processed
CountErrorOnly(st) == [st EXCEPT !.error = @ + 1]

\* Consolidator._count_error
CountError(st) == [st EXCEPT !.processed = @ + 1, !.error = @ + 1]

\* a success count that increments the wrong key
CountProcessedWrongKey(st) == [st EXCEPT !.error = @ + 1]

\* Consolidator._count_processed
CountProcessed(st) == [st EXCEPT !.processed = @ + 1]

\* Consolidator._set_final_state: the assignments in order; a division by
\* zero raises after the assignments that precede it
SetFinalState(st) ==
    LET s1 == [st EXCEPT !.skipped = st.total - st.processed,
                         !.success = st.processed - st.error]
        s2 == [s1 EXCEPT !.process_rate = Ratio(100 * s1.processed, s1.total)]
        s3 == [s2 EXCEPT !.success_rate =
                             Ratio(100 * s2.success, s2.total - s2.skipped)]
    IN IF s1.total = 0 THEN [exc |-> "ZeroDivisionError", state |-> s1]
       ELSE IF s2.total - s2.skipped = 0
            THEN [exc |-> "ZeroDivisionError", state |-> s2]
            ELSE [exc |-> "", state |-> s3]

\* ------------------------------------------------------------------ state
VARIABLES
    models, scenarios, cities, csv_generator,   \* the Consolidator's inputs
    state,                                      \* self.state
    fs,                                         \* the files of self.temp_dir
    pc, suspended, raised,                      \* the generator's position
    mi, si,                                     \* indices of the two outer loops
    cities_to_process, for_recovery,            \* locals of the pair's pass
    recovered_data, ri,                         \* the replay loop
    extractor, ci,                              \* the extraction loop
    yielded,                                    \* what the consumer received
    events,                                     \* log of the run's operations
    start_fs,                                   \* the files when the run began
    ref,                                        \* a resumed run kept for comparison
    finder,                                     \* the CoordinatesFinder object
    fm_pc, fm_raised,                           \* position in find_matching_coordinates
    city_index,                                 \* its loop over city_coordinates
    nearest_matching_coordinates,               \* its result dict
    searches,                                   \* log of the searches it made
    call                                        \* the last call of a pure function

vars == << models, scenarios, cities, csv_generator, state, fs, pc, suspended,
           raised, mi, si, cities_to_process, for_recovery, recovered_data, ri,
           extractor, ci, yielded, events, start_fs, ref, finder, fm_pc, fm_raised,
           city_index, nearest_matching_coordinates, searches, call >>

\* the variables of the consolidation driver, and those of the calculator side
driver == << models, scenarios, cities, csv_generator, state, fs, pc, suspended,
             raised, mi, si, cities_to_process, for_recovery, recovered_data, ri,
             extractor, ci, yielded, events, start_fs, ref >>
calc == << finder, fm_pc, fm_raised, city_index, nearest_matching_coordinates,
           searches, call >>

\* no CoordinatesFinder has been built and no function has been called
CalcIdle ==
    /\ finder = None /\ fm_pc = "idle" /\ fm_raised = ""
    /\ city_index = 1 /\ nearest_matching_coordinates = <<>>
    /\ searches = <<>>
    /\ call = None

Terminal == {"idle", "done", "failed"}

\* the model and scenario of the current iteration of the outer loops
model == models[mi]
scenario == scenarios[si]

Event(kind, city) ==
    [kind |-> kind, model |-> model, scenario |-> scenario, city |-> city]

\* the increasing subsequences of 1..n, and the subsequences of a sequence
SubSeqs(n) == {SortedSeq(S) : S \in SUBSET (1..n)}
SubSeqsOf(seq) == {[k \in 1..Len(idx) |-> seq[idx[k]]] : idx \in SubSeqs(Len(seq))}

EmptyDir == [p \in Paths |-> Absent]

\* the run has reached the call of _set_final_state
ReachedFinal == pc = "done" \/ (pc = "failed" /\ raised = "ZeroDivisionError")

Init ==
    /\ models = <<>> /\ scenarios = <<>> /\ cities = <<>>
    /\ csv_generator = FALSE
    /\ state = InitialState(<<>>, <<>>, <<>>)
    /\ fs = EmptyDir
    /\ pc = "idle" /\ suspended = TRUE /\ raised = ""
    /\ mi = 1 /\ si = 1
    /\ cities_to_process = <<>> /\ for_recovery = <<>>
    /\ recovered_data = <<>> /\ ri = 1
    /\ extractor = None /\ ci = 1
    /\ yielded = <<>> /\ events = <<>>
    /\ start_fs = EmptyDir
    /\ ref = None
    /\ CalcIdle

\* the generator's locals before its first statement
ResetLocals ==
    /\ mi' = 1 /\ si' = 1
    /\ cities_to_process' = <<>> /\ for_recovery' = <<>>
    /\ recovered_data' = <<>> /\ ri' = 1
    /\ extractor' = None /\ ci' = 1

\* Consolidator.__init__ followed by the call of generate_precipitation_dataset:
\* the generator object is created and runs nothing until it is first resumed.
\* A run kept for comparison is followed by a run of the same inputs on an
\* empty temporary directory.
StartRun ==
    /\ UNCHANGED calc
    /\ pc = "idle"
    /\ \E ms \in SubSeqsOf(ClimateModels), ss \in SubSeqsOf(SspScenarios),
          cs \in SubSeqs(NumCities), csv \in BOOLEAN :
        /\ IF ref = None THEN ref' = ref
           ELSE IF ref[1].phase = "recorded"
                THEN /\ ms = ref[1].models /\ ss = ref[1].scenarios
                     /\ cs = ref[1].cities
                     /\ fs = EmptyDir
                     /\ ref' = Some([ref[1] EXCEPT !.phase = "rerun"])
                ELSE ref' = None
        /\ models' = ms /\ scenarios' = ss /\ cities' = cs
        /\ csv_generator' = csv
        /\ state' = InitialState(ms, ss, cs)
    /\ pc' = "loop" /\ suspended' = TRUE /\ raised' = ""
    /\ ResetLocals
    /\ yielded' = <<>> /\ events' = <<>>
    /\ start_fs' = fs
    /\ UNCHANGED fs

\* the consumer asks for the next element (next() on the generator)
Request ==
    /\ UNCHANGED calc
    /\ pc \notin Terminal /\ suspended
    /\ suspended' = FALSE
    /\ UNCHANGED << models, scenarios, cities, csv_generator, state, fs, pc, raised,
                    mi, si, cities_to_process, for_recovery, recovered_data, ri,
                    extractor, ci, yielded, events, start_fs, ref >>

\* lines 210-215: the heads of the two loops and the start of a pair's pass
LoopHead ==
    /\ UNCHANGED calc
    /\ pc = "loop" /\ ~suspended
    /\ IF mi > Len(models)
       THEN /\ pc' = "final"
            /\ UNCHANGED << mi, si, cities_to_process, for_recovery >>
       ELSE IF si > Len(scenarios)
            THEN /\ mi' = mi + 1 /\ si' = 1
                 /\ UNCHANGED << pc, cities_to_process, for_recovery >>
            ELSE /\ cities_to_process' = cities
                 /\ for_recovery' = <<>>
                 /\ pc' = IF ValidateRecoveryPath(fs, model, scenario) # None
                          THEN "recover" ELSE "remaining"
                 /\ UNCHANGED << mi, si >>
    /\ UNCHANGED << models, scenarios, cities, csv_generator, state, fs, suspended,
                    raised, recovered_data, ri, extractor, ci, yielded, events,
                    start_fs, ref >>

\* line 216: load the pair's snapshot
RecoverData ==
    /\ UNCHANGED calc
    /\ pc = "recover" /\ ~suspended
    /\ LET loaded == RecoverDataFromFile(fs, RecoveryPath(model, scenario))
       IN IF loaded.exc # ""
          THEN /\ pc' = "failed" /\ raised' = loaded.exc
               /\ UNCHANGED << recovered_data, ri >>
          ELSE /\ recovered_data' = loaded.val[1] /\ ri' = 1
               /\ pc' = "replay"
               /\ UNCHANGED raised
    /\ UNCHANGED << models, scenarios, cities, csv_generator, state, fs, suspended,
                    mi, si, cities_to_process, for_recovery, extractor, ci, yielded,
                    events, start_fs, ref >>

\* a replay loop that hands its element over and runs on without waiting for
\* the next request
ReplayCityEager ==
    /\ UNCHANGED calc
    /\ pc = "replay" /\ ~suspended
    /\ IF ri > Len(recovered_data)
       THEN /\ pc' = "remaining"
            /\ UNCHANGED << state, suspended, cities_to_process, ri, yielded, events >>
       ELSE LET content == recovered_data[ri]
            IN /\ ri' = ri + 1
               /\ pc' = pc
               /\ IF content.city \notin {cities_to_process[k] :
                                           k \in 1..Len(cities_to_process)}
                  THEN UNCHANGED << state, suspended, cities_to_process, yielded,
                                    events >>
                  ELSE /\ state' = CountProcessed(state)
                       /\ cities_to_process' = Pop(cities_to_process, content.city)
                       /\ yielded' = Append(yielded, [data |-> content.data,
                                                      metadata |-> content.metadata])
                       /\ events' = events \o << Event("replay", content.city),
                                                 Event("yield", content.city) >>
                       /\ suspended' = FALSE
    /\ UNCHANGED << models, scenarios, cities, csv_generator, fs, raised, mi, si,
                    for_recovery, recovered_data, extractor, ci, start_fs, ref >>

\* lines 217-222: one iteration of the replay loop
ReplayCity ==
    /\ UNCHANGED calc
    /\ pc = "replay" /\ ~suspended
    /\ IF ri > Len(recovered_data)
       THEN /\ pc' = "remaining"
            /\ UNCHANGED << state, suspended, cities_to_process, ri, yielded, events >>
       ELSE LET content == recovered_data[ri]
            IN /\ ri' = ri + 1
               /\ pc' = pc
               /\ IF content.city \notin {cities_to_process[k] :
                                           k \in 1..Len(cities_to_process)}
                  THEN UNCHANGED << state, suspended, cities_to_process, yielded,
                                    events >>
                  ELSE /\ state' = CountProcessed(state)
                       /\ cities_to_process' = Pop(cities_to_process, content.city)
                       /\ yielded' = Append(yielded, [data |-> content.data,
                                                      metadata |-> content.metadata])
                       /\ events' = events \o << Event("replay", content.city),
                                                 Event("yield", content.city) >>
                       /\ suspended' = TRUE
    /\ UNCHANGED << models, scenarios, cities, csv_generator, fs, raised, mi, si,
                    for_recovery, recovered_data, extractor, ci, start_fs, ref >>

\* lines 223-233: nothing left, or open the pair's grid file; only
\* InvalidSourceFileError is caught
CheckRemaining ==
    /\ UNCHANGED calc
    /\ pc = "remaining" /\ ~suspended
    /\ IF cities_to_process = <<>>
       THEN /\ si' = si + 1 /\ pc' = "loop"
            /\ UNCHANGED << raised, extractor, ci, events >>
       ELSE LET path == ValidatePrecipitationSourcePath(model, scenario)
            IN IF path.exc = "InvalidSourceFileError"
               THEN /\ si' = si + 1 /\ pc' = "loop"
                    /\ events' = Append(events, Event("not_found", 0))
                    /\ UNCHANGED << raised, extractor, ci >>
               ELSE IF path.exc # ""
                    THEN /\ pc' = "failed" /\ raised' = path.exc
                         /\ UNCHANGED << si, extractor, ci, events >>
                    ELSE /\ extractor' = Some(NetCDFExtractor(path.val[1]))
                         /\ ci' = 1
                         /\ pc' = "extract"
                         /\ events' = Append(events, Event("open", 0))
                         /\ UNCHANGED << si, raised >>
    /\ UNCHANGED << models, scenarios, cities, csv_generator, state, fs, suspended,
                    mi, cities_to_process, for_recovery, recovered_data, ri,
                    yielded, start_fs, ref >>

\* lines 234-260: one iteration of the extraction loop
ExtractCity ==
    /\ UNCHANGED calc
    /\ pc = "extract" /\ ~suspended
    /\ IF ci > Len(cities_to_process)
       THEN /\ pc' = "dump"
            /\ UNCHANGED << state, suspended, raised, for_recovery, ci, yielded,
                            events >>
       ELSE LET city_name == cities_to_process[ci]
                coordinates == GetCoordinates(CityDetails(city_name))
            IN IF coordinates.exc # ""
               THEN /\ pc' = "failed" /\ raised' = coordinates.exc
                    /\ UNCHANGED << state, suspended, for_recovery, ci, yielded,
                                    events >>
               ELSE LET latitude  == coordinates.val[1][1]
                        longitude == coordinates.val[1][2]
                        extracted == ExtractPrecipitation(extractor[1], latitude,
                                                          longitude)
                        metadata  == [ city      |-> city_name,
                                       model     |-> model,
                                       scenario  |-> scenario,
                                       latitude  |-> latitude,
                                       longitude |-> longitude ]
                    IN IF extracted.exc # ""
                       THEN /\ pc' = "failed" /\ raised' = extracted.exc
                            /\ events' = Append(events, Event("extract", city_name))
                            /\ UNCHANGED << state, suspended, for_recovery, ci,
                                            yielded >>
                       ELSE LET data_series == extracted.val[1]
                            IN /\ ci' = ci + 1
                               /\ pc' = pc
                               /\ raised' = raised
                               /\ IF ~SeriesAny(data_series)
                                  THEN /\ state' = CountError(state)
                                       /\ events' = events \o
                                              << Event("extract", city_name),
                                                 Event("error", city_name) >>
                                       /\ UNCHANGED << suspended, for_recovery,
                                                       yielded >>
                                  ELSE /\ state' = CountProcessed(state)
                                       /\ for_recovery' = DictSet(for_recovery,
                                              [ city     |-> city_name,
                                                data     |-> data_series,
                                                metadata |-> metadata ])
                                       /\ yielded' = Append(yielded,
                                              [ data     |-> data_series,
                                                metadata |-> metadata ])
                                       /\ events' = events
                                              \o << Event("extract", city_name) >>
                                              \o (IF csv_generator
                                                  THEN << Event("csv", city_name) >>
                                                  ELSE << >>)
                                              \o << Event("success", city_name),
                                                    Event("yield", city_name) >>
                                       /\ suspended' = TRUE
    /\ UNCHANGED << models, scenarios, cities, csv_generator, fs, mi, si,
                    cities_to_process, recovered_data, ri, extractor, start_fs, ref >>

\* lines 137-143: nothing to dump, or open the dirty file for writing
DumpRecoveryData ==
    /\ UNCHANGED calc
    /\ pc = "dump" /\ ~suspended
    /\ IF for_recovery = <<>>
       THEN /\ si' = si + 1 /\ pc' = "loop"
            /\ UNCHANGED fs
       ELSE /\ fs' = [fs EXCEPT ![DirtyPath(model, scenario)] =
                                     [exists |-> TRUE, bytes |-> <<>>]]
            /\ pc' = "dump_write"
            /\ UNCHANGED si
    /\ UNCHANGED << models, scenarios, cities, csv_generator, state, suspended, raised,
                    mi, cities_to_process, for_recovery, recovered_data, ri,
                    extractor, ci, yielded, events, start_fs, ref >>

\* line 144: pickle.dump writes the stream chunk by chunk; the file is closed
\* after the last chunk
DumpWrite ==
    /\ UNCHANGED calc
    /\ pc = "dump_write" /\ ~suspended
    /\ LET dirty_path == DirtyPath(model, scenario)
           stream == Pickle(for_recovery)
           written == Len(fs[dirty_path].bytes)
       IN /\ fs' = [fs EXCEPT ![dirty_path].bytes = Append(@, stream[written + 1])]
          /\ pc' = IF written + 1 = Len(stream) THEN "dump_replace" ELSE pc
    /\ UNCHANGED << models, scenarios, cities, csv_generator, state, suspended, raised,
                    mi, si, cities_to_process, for_recovery, recovered_data, ri,
                    extractor, ci, yielded, events, start_fs, ref >>

\* line 145: dirty_path.replace(output_file_path), the end of the pair's pass
DumpReplace ==
    /\ UNCHANGED calc
    /\ pc = "dump_replace" /\ ~suspended
    /\ LET dirty_path == DirtyPath(model, scenario)
           output_file_path == RecoveryPath(model, scenario)
       IN fs' = [p \in Paths |->
                    IF p = output_file_path THEN fs[dirty_path]
                    ELSE IF p = dirty_path THEN Absent
                    ELSE fs[p]]
    /\ events' = Append(events, Event("dump", 0))
    /\ si' = si + 1 /\ pc' = "loop"
    /\ UNCHANGED << models, scenarios, cities, csv_generator, state, suspended, raised,
                    mi, cities_to_process, for_recovery, recovered_data, ri,
                    extractor, ci, yielded, start_fs, ref >>

\* line 263: the loops are exhausted
FinalState ==
    /\ UNCHANGED calc
    /\ pc = "final" /\ ~suspended
    /\ LET final == SetFinalState(state)
       IN /\ state' = final.state
          /\ IF final.exc # ""
             THEN pc' = "failed" /\ raised' = final.exc
             ELSE pc' = "done" /\ raised' = raised
    /\ UNCHANGED << models, scenarios, cities, csv_generator, fs, suspended, mi, si,
                    cities_to_process, for_recovery, recovered_data, ri, extractor,
                    ci, yielded, events, start_fs, ref >>

\* the process memory is lost, the files stay as they are
ProcessEnds ==
    /\ UNCHANGED calc
    /\ pc' = "idle" /\ suspended' = TRUE /\ raised' = ""
    /\ state' = InitialState(<<>>, <<>>, <<>>)
    /\ models' = <<>> /\ scenarios' = <<>> /\ cities' = <<>>
    /\ csv_generator' = FALSE
    /\ ResetLocals
    /\ yielded' = <<>> /\ events' = <<>>
    /\ start_fs' = EmptyDir
    /\ UNCHANGED << fs, ref >>

\* the process is killed, or the consumer abandons the generator, mid-run
Crash ==
    /\ pc \notin Terminal
    /\ ProcessEnds

\* the process exits after the generator ended (exhausted, or by an exception)
Exit ==
    /\ pc \in {"done", "failed"}
    /\ ProcessEnds

\* Consolidator.clear_temp_files
ClearTempFiles ==
    /\ UNCHANGED calc
    /\ pc = "idle"
    /\ fs # EmptyDir
    /\ fs' = EmptyDir
    /\ UNCHANGED << models, scenarios, cities, csv_generator, state, pc, suspended,
                    raised, mi, si, cities_to_process, for_recovery, recovered_data,
                    ri, extractor, ci, yielded, events, start_fs, ref >>

\* the run started from at least one snapshot of its pairs
Resumed ==
    \E m \in 1..Len(models), s \in 1..Len(scenarios) :
        start_fs[RecoveryPath(models[m], scenarios[s])].exists

\* keep the outcome of a resumed run, to compare it with a run from scratch
RememberResumed ==
    /\ UNCHANGED calc
    /\ ReachedFinal /\ Resumed /\ ref = None
    /\ ref' = Some([ models |-> models, scenarios |-> scenarios, cities |-> cities,
                     processed |-> state.processed,
                     replayed |-> Len(SelectSeq(events, LAMBDA e : e.kind = "replay")),
                     fresh |-> Len(SelectSeq(events, LAMBDA e : e.kind = "extract")),
                     yielded |-> yielded,
                     phase |-> "recorded" ])
    /\ UNCHANGED << models, scenarios, cities, csv_generator, state, fs, pc, suspended,
                    raised, mi, si, cities_to_process, for_recovery, recovered_data,
                    ri, extractor, ci, yielded, events, start_fs >>

Next ==
    \/ StartRun
    \/ Request
    \/ LoopHead
    \/ RecoverData
    \/ ReplayCity
    \/ CheckRemaining
    \/ ExtractCity
    \/ DumpRecoveryData
    \/ DumpWrite
    \/ DumpReplace
    \/ FinalState
    \/ Crash
    \/ Exit
    \/ ClearTempFiles
    \/ RememberResumed

Spec == Init /\ [][Next]_vars

\* The environment damages a snapshot between two runs: the file is cut short
\* (an empty file included).
CorruptRecoveryFile ==
    /\ UNCHANGED calc
    /\ pc = "idle"
    /\ \E p \in AllPairs :
          LET path == RecoveryPath(p[1], p[2])
          IN /\ fs[path].exists
             /\ \E n \in 0..(Len(fs[path].bytes) - 1) :
                   fs' = [fs EXCEPT ![path].bytes = SubSeq(@, 1, n)]
    /\ UNCHANGED << models, scenarios, cities, csv_generator, state, pc, suspended,
                    raised, mi, si, cities_to_process, for_recovery, recovered_data,
                    ri, extractor, ci, yielded, events, start_fs, ref >>

NextCorrupt == Next \/ CorruptRecoveryFile

SpecCorrupt == Init /\ [][NextCorrupt]_vars

TypeOK ==
    /\ pc \in Terminal \cup {"loop", "recover", "replay", "remaining", "extract",
                             "dump", "dump_write", "dump_replace", "final"}
    /\ state.processed \in Nat

\* ----------------------------------------------------------------- claims
CountingKinds == {"replay", "success", "error"}
EventsOf(kinds) == SelectSeq(events, LAMBDA e : e.kind \in kinds)
Dumping == {"dump_write", "dump_replace"}

\* C1: every run that exhausts the driver completes the final-state
\* computation without raising, and then processed + skipped = total and
\* success + error = processed.
C1_FinalStateCompletes ==
    ReachedFinal =>
        /\ raised = ""
        /\ state.processed + state.skipped = state.total
        /\ state.success + state.error = state.processed

\* C2: a failure of one combination (missing nearest coordinates, or
\* coordinates that are not axis values of the pair's grid) does not
\* propagate out of generate_precipitation_dataset.
C2_CombinationFailureNotFatal ==
    raised \notin {"CoordinatesNotAvailableError", "InvalidTargetCoordinatesError"}

\* C3: an absent or corrupt recovery file is treated as no recovery data:
\* loading it never makes the run fail.
C3_RecoveryFileNeverFatal ==
    raised \notin {"EOFError", "UnpicklingError"}

\* C4: at every point, a crash between the steps of _dump_recovery_data
\* included, the final snapshot path of every pair does not exist or holds a
\* complete snapshot; during the dump of a pair it holds the previous
\* snapshot or the new one.
C4_SnapshotNeverPartial ==
    \A p \in AllPairs :
        LET file == fs[RecoveryPath(p[1], p[2])]
        IN file.exists =>
             /\ Unpickle(file.bytes).exc = ""
             /\ (pc \in Dumping /\ p = <<model, scenario>>) =>
                    \/ file = start_fs[RecoveryPath(p[1], p[2])]
                    \/ file.bytes = Pickle(for_recovery)

\* C4 witness: the process died in the middle of the write; the dirty file is
\* truncated while a complete snapshot sits at a final path.
C4_CrashedMidWrite ==
    /\ pc = "idle"
    /\ fs[TempFilePath].exists
    /\ Unpickle(fs[TempFilePath].bytes).exc # ""
    /\ Len(fs[TempFilePath].bytes) > 0
    /\ \E p \in AllPairs : fs[RecoveryPath(p[1], p[2])].exists

\* the cities held by the snapshot of a pair in the given files
SnapshotCities(files, model_name, scenario_name) ==
    LET file == files[RecoveryPath(model_name, scenario_name)]
        loaded == Unpickle(file.bytes)
    IN IF file.exists /\ loaded.exc = ""
       THEN {loaded.val[1][k].city : k \in 1..Len(loaded.val[1])}
       ELSE {}

Range(seq) == {seq[k] : k \in 1..Len(seq)}

Comparing == ref # None /\ ref[1].phase = "rerun"

\* C5: in a run that starts from snapshots, extraction is invoked only for the
\* cities that the pair's snapshot does not hold, and the processed count at
\* the end of the resumed run equals that of a run from scratch over the same
\* models, scenarios, cities and grid files (which reaches its end as well).
C5_ResumeEquivalent ==
    /\ \A k \in 1..Len(events) :
          events[k].kind = "extract" =>
              events[k].city \notin
                  SnapshotCities(start_fs, events[k].model, events[k].scenario)
    /\ (Comparing /\ ReachedFinal) => state.processed = ref[1].processed
    /\ (Comparing /\ pc = "failed") => raised = "ZeroDivisionError"

\* C5 witness: a run from scratch has ended after a resumed run of the same
\* inputs that replayed some cities and extracted others.
C5_PartialResumeCompared ==
    /\ Comparing /\ ReachedFinal
    /\ ref[1].replayed > 0 /\ ref[1].fresh > 0
    /\ state.processed = ref[1].processed

CountersConsistent ==
    /\ 0 <= state.error
    /\ state.error <= state.processed
    /\ state.processed <= state.total
    /\ state.processed = Len(EventsOf(CountingKinds))
    /\ \A i, j \in 1..Len(events) :
          ( /\ i < j
            /\ events[i].kind \in CountingKinds
            /\ events[j].kind \in CountingKinds )
          => << events[i].model, events[i].scenario, events[i].city >>
               # << events[j].model, events[j].scenario, events[j].city >>

\* C6: within a run processed never decreases, every combination is counted
\* at most once (by replay, success or error), and
\* 0 <= error <= processed <= total.
C6_CountedOnce ==
    [][ /\ CountersConsistent'
        /\ (pc # "idle" /\ pc' # "idle") => state'.processed >= state.processed
      ]_vars

\* C6 witness: one run has counted a replayed city, an extracted city and an
\* error.
C6_AllKindsCounted ==
    \A kind \in CountingKinds : \E k \in 1..Len(events) : events[k].kind = kind

\* C7: when the grid file of a pair is absent, the step that finds it so
\* changes no counter, yields nothing, writes no file and moves to the next
\* pair.
C7_MissingGridSkipsPair ==
    [][ ( /\ pc = "remaining" /\ ~suspended
          /\ cities_to_process # <<>>
          /\ SourceDir(model, scenario) = None
          /\ pc' # "idle" )
        => /\ state' = state /\ yielded' = yielded /\ fs' = fs
           /\ for_recovery' = for_recovery
           /\ raised' = raised
           /\ pc' = "loop" /\ mi' = mi /\ si' = si + 1
      ]_vars

\* C7 witness: after a pair was skipped for its missing grid file, the grid of
\* a later pair was opened.
C7_SkippedThenContinued ==
    \E i, j \in 1..Len(events) :
        i < j /\ events[i].kind = "not_found" /\ events[j].kind = "open"

\* C8: the step that extracts an empty series for a city adds one to processed
\* and one to error, yields nothing, buffers nothing and goes on with the next
\* city of the pair.
C8_EmptySeriesCountsError ==
    [][ ( /\ pc = "extract" /\ ~suspended
          /\ ci <= Len(cities_to_process)
          /\ GetCoordinates(CityDetails(cities_to_process[ci])).exc = ""
          /\ LET c == GetCoordinates(CityDetails(cities_to_process[ci])).val[1]
                 x == ExtractPrecipitation(extractor[1], c[1], c[2])
             IN x.exc = "" /\ x.val[1] = <<>>
          /\ pc' # "idle" )
        => /\ state'.processed = state.processed + 1
           /\ state'.error = state.error + 1
           /\ yielded' = yielded /\ ~suspended'
           /\ for_recovery' = for_recovery
           /\ pc' = "extract" /\ ci' = ci + 1
           /\ cities_to_process' = cities_to_process
      ]_vars

\* C8 witness: two cities of one pair were counted as errors, one after the
\* other.
C8_TwoErrorsInARow ==
    \E k \in 1..(Len(events) - 2) :
        /\ events[k].kind = "error" /\ events[k + 2].kind = "error"
        /\ events[k].model = events[k + 2].model
        /\ events[k].scenario = events[k + 2].scenario

\* every time step of the cell of the city is masked in the grid of the pair
CellAllMasked(model_name, scenario_name, city) ==
    LET variables == SourceDir(model_name, scenario_name)[1]
        c == GetCoordinates(CityDetails(city)).val[1]
        idx == FindCoordinatesIndices(variables, c[1], c[2]).val[1]
    IN \A t \in 1..Len(variables.pr.mask) : variables.pr.mask[t][idx[1]][idx[2]]

\* C9: a combination whose series carries no data (an empty series, or a cell
\* masked at every time step) is counted as an error and never as a success.
C9_NoDataIsError ==
    \A k \in 1..Len(events) :
        events[k].kind = "success" =>
            ~CellAllMasked(events[k].model, events[k].scenario, events[k].city)

\* C10: a replay step for a snapshot city of the current city set yields the
\* series and metadata stored in the pair's snapshot file, adds one to
\* processed only, and removes the city from the cities still to extract; for
\* a snapshot city outside the current city set it changes no counter and
\* yields nothing.
C10_ReplayStoredUnchanged ==
    [][ ( /\ pc = "replay" /\ ~suspended
          /\ ri <= Len(recovered_data)
          /\ pc' # "idle" )
        => LET stored == Unpickle(fs[RecoveryPath(model, scenario)].bytes).val[1][ri]
           IN IF stored.city \in Range(cities)
              THEN /\ yielded' = Append(yielded, [ data |-> stored.data,
                                                   metadata |-> stored.metadata ])
                   /\ suspended'
                   /\ state'.processed = state.processed + 1
                   /\ state'.error = state.error
                   /\ stored.city \in Range(cities_to_process)
                   /\ Range(cities_to_process') =
                          Range(cities_to_process) \ {stored.city}
              ELSE /\ state' = state /\ yielded' = yielded
                   /\ cities_to_process' = cities_to_process
      ]_vars

\* C10 witness: a snapshot city was replayed and another snapshot city, absent
\* from the current city set, was passed over.
C10_ReplayedAndIgnored ==
    /\ pc = "replay" /\ ri > 1
    /\ recovered_data[ri - 1].city \notin Range(cities)
    /\ \E k \in 1..Len(events) : events[k].kind = "replay"

\* C11: the map that _dump_recovery_data persisted for a pair is non-empty and
\* is what _recover_data_from_file loads from the path _validate_recovery_path
\* returns for that pair (same cities, series and metadata); until the pair is
\* dumped again or the directory is cleared the file stays as written, and a
\* later run loads exactly the file's map.
C11_SnapshotRoundTrip ==
    [][ \A p \in AllPairs :
          LET path == RecoveryPath(p[1], p[2])
              replaced == /\ pc = "dump_replace" /\ pc' = "loop"
                          /\ p = <<model, scenario>>
          IN /\ replaced =>
                   /\ for_recovery # <<>>
                   /\ ValidateRecoveryPath(fs', p[1], p[2]) = Some(path)
                   /\ RecoverDataFromFile(fs', path) = Ok(for_recovery)
             /\ fs'[path] # fs[path] => (replaced \/ fs'[path] = Absent)
             /\ (pc = "recover" /\ pc' = "replay" /\ p = <<model, scenario>>) =>
                   /\ ValidateRecoveryPath(fs, p[1], p[2]) = Some(path)
                   /\ Ok(recovered_data') = RecoverDataFromFile(fs, path)
      ]_vars

\* C11 witness: a run has loaded a snapshot of two cities that an earlier run
\* wrote.
C11_LoadedWrittenMap ==
    /\ pc = "replay" /\ Len(recovered_data) >= 2
    /\ start_fs[RecoveryPath(model, scenario)].bytes = Pickle(recovered_data)
    /\ recovered_data[1].city # recovered_data[2].city

\* ===================================================== CoordinatesFinder
\* (agents/calculator.py).  Indices are Python indices: 0-based, a negative
\* index counts from the end, an index outside -n..n-1 raises IndexError.
GridSize == 3
MaxValidCells == 2
MaxRawCities == 2

\* CoordinatesFinder.MAX_OFFSET
MAX_OFFSET == 15

Abs(x) == IF x < 0 THEN -x ELSE x
Min(a, b) == IF a <= b THEN a ELSE b
Max(a, b) == IF a >= b THEN a ELSE b

PyInRange(n, k) == k >= -n /\ k < n
PyAt(seq, k) == seq[(k % Len(seq)) + 1]

\* ndarray.argmin(): the first index of the least value
ArgMin(values) ==
    CHOOSE i \in 0..(Len(values) - 1) :
        /\ \A k \in 0..(Len(values) - 1) : values[i + 1] <= values[k + 1]
        /\ \A k \in 0..(i - 1) : values[k + 1] # values[i + 1]

\* a validity test that asks for every time step to be unmasked
CoordinatesFullyValid(precipitation_series, latitude_index, longitude_index) ==
    IF \/ ~PyInRange(precipitation_series.shape[2], latitude_index)
       \/ ~PyInRange(precipitation_series.shape[3], longitude_index)
    THEN Raise("IndexError")
    ELSE Ok(\A t \in 1..precipitation_series.shape[1] :
               ~PyAt(PyAt(precipitation_series.mask[t], latitude_index), longitude_index))

\* PrecipitationValidator.coordinates_have_precipitation_data:
\* not np.all(np.ma.getmask(precipitation_series[:, latitude_index, longitude_index]))
CoordinatesHavePrecipitationData(precipitation_series, latitude_index, longitude_index) ==
    IF \/ ~PyInRange(precipitation_series.shape[2], latitude_index)
       \/ ~PyInRange(precipitation_series.shape[3], longitude_index)
    THEN Raise("IndexError")
    ELSE Ok(~ \A t \in 1..precipitation_series.shape[1] :
                 PyAt(PyAt(precipitation_series.mask[t], latitude_index), longitude_index))

\* sorted(range(-offset, offset + 1), key=abs): 0, -1, 1, -2, 2, ...
Limits(offset) ==
    [k \in 1..(2 * offset + 1) |->
        IF k = 1 THEN 0 ELSE IF k % 2 = 0 THEN -(k \div 2) ELSE k \div 2]

\* len(self.precipitation[0, :, 0] - 1) and len(self.precipitation[0, 0, :] - 1)
MAX_LATITUDE_INDEX(self) == self.precipitation.shape[2]
MAX_LONGITUDE_INDEX(self) == self.precipitation.shape[3]

\* the n-th pair of index offsets of the two nested loops over limits, clamped
\* as lines 228-231 do
SpiralCell(self, original_latitude_index, original_longitude_index, limits, n) ==
    LET latitude_offset == limits[(n \div Len(limits)) + 1]
        longitude_offset == limits[(n % Len(limits)) + 1]
    IN << Min(original_latitude_index + latitude_offset, MAX_LATITUDE_INDEX(self)),
          Min(original_longitude_index + longitude_offset, MAX_LONGITUDE_INDEX(self)) >>

\* one call of coordinates_have_precipitation_data: the offset of the pass, the
\* position n in the pass's two nested loops, and the index pair probed
Probe(offset, n, cell) == [offset |-> offset, n |-> n, cell |-> cell]

\* CoordinatesFinder._search_around_coordinates from a given offset on: the
\* pass of one offset probes, in loop order, the cells not yet checked and
\* stops at the first that has data or whose probe raises.
RECURSIVE SearchFromOffset(_, _, _, _, _, _)
SearchFromOffset(self, original_latitude_index, original_longitude_index, offset, checked_coordinates, probed) ==
    IF offset > MAX_OFFSET
    THEN [exc |-> "ReachedCoordinatesOffsetLimitError", val |-> <<>>, probed |-> probed]
    ELSE
      LET limits == Limits(offset)
          cell(n) == SpiralCell(self, original_latitude_index,
                                original_longitude_index, limits, n)
          fresh == {n \in 0..(Len(limits) * Len(limits) - 1) :
                       cell(n) \notin checked_coordinates}
          found == {n \in fresh :
                      CoordinatesHavePrecipitationData(
                          self.precipitation, cell(n)[1], cell(n)[2]) # Ok(FALSE)}
      IN IF found = {}
         THEN SearchFromOffset(self, original_latitude_index, original_longitude_index,
                               offset + 1,
                               checked_coordinates \cup {cell(n) : n \in fresh},
                               probed \cup {Probe(offset, n, cell(n)) : n \in fresh})
         ELSE LET first == CHOOSE n \in found : \A m \in found : n <= m
                  new == cell(first)
                  seen == probed \cup {Probe(offset, n, cell(n)) :
                                           n \in {m \in fresh : m <= first}}
              IN IF ~PyInRange(MAX_LATITUDE_INDEX(self), new[1])
                    \/ ~PyInRange(MAX_LONGITUDE_INDEX(self), new[2])
                 THEN [exc |-> "IndexError", val |-> <<>>, probed |-> seen]
                 ELSE [exc |-> "",
                       val |-> << << PyAt(self.latitudes, new[1]),
                                     PyAt(self.longitudes, new[2]) >> >>,
                       probed |-> seen]

\* CoordinatesFinder._search_around_coordinates
SearchAroundCoordinates(self, original_latitude_index, original_longitude_index) ==
    SearchFromOffset(self, original_latitude_index, original_longitude_index, 1,
                     {<<original_latitude_index, original_longitude_index>>}, {})

\* CoordinatesFinder._search_nearest_coordinates
SearchNearestCoordinates(self, target_latitude, target_longitude) ==
    LET latitude_index ==
            ArgMin([k \in 1..Len(self.latitudes) |-> Abs(self.latitudes[k] - target_latitude)])
        longitude_index ==
            ArgMin([k \in 1..Len(self.longitudes) |-> Abs(self.longitudes[k] - target_longitude)])
        around == SearchAroundCoordinates(self, latitude_index, longitude_index)
    IN IF CoordinatesHavePrecipitationData(
              self.precipitation, latitude_index, longitude_index).val[1]
       THEN [exc |-> "",
             val |-> << << PyAt(self.latitudes, latitude_index),
                           PyAt(self.longitudes, longitude_index) >> >>,
             probed |-> {Probe(0, 0, <<latitude_index, longitude_index>>)}]
       ELSE [around EXCEPT
                !.probed = @ \cup {Probe(0, 0, <<latitude_index, longitude_index>>)}]

\* ---------------------------------------------------- the finder's inputs
\* The reference grid read by CoordinatesFinder.__init__: axes 10, 20, ..., and
\* a precipitation variable in which the cells of `valid` are unmasked at the
\* last time step (and, on even diagonals, at every step) and all other
\* cells are masked throughout.
FinderAxis(n) == [k \in 1..n |-> 10 * k]

ReferenceGrid(n, valid) ==
    [ latitudes  |-> FinderAxis(n),
      longitudes |-> FinderAxis(n),
      precipitation |->
          [ shape |-> <<TimeSteps, n, n>>,
            mask  |-> [t \in 1..TimeSteps |-> [i \in 1..n |-> [j \in 1..n |->
                          \/ <<i - 1, j - 1>> \notin valid
                          \/ (t < TimeSteps /\ (i + j) % 2 = 1)]]] ] ]

\* small grids with few valid cells, small grids with a single invalid cell,
\* and grids wide enough for a search to run through all offsets without
\* reaching every column
ReferenceGrids ==
    {ReferenceGrid(GridSize, valid) :
        valid \in {V \in SUBSET ((0..(GridSize - 1)) \X (0..(GridSize - 1))) :
                      Cardinality(V) <= MaxValidCells}}
    \cup {ReferenceGrid(GridSize, ((0..(GridSize - 1)) \X (0..(GridSize - 1))) \ {invalid}) :
             invalid \in (0..(GridSize - 1)) \X (0..(GridSize - 1))}
    \cup {ReferenceGrid(2 * MAX_OFFSET + 2, valid) :
             valid \in {{}, {<<MAX_OFFSET + 1, MAX_OFFSET + 1>>}}}

\* target coordinates of the raw cities: on an axis value, or between two axis
\* values (nearer to one of them, or halfway)
TargetLatitudes(grid) ==
    IF Len(grid.latitudes) = GridSize
    THEN {10 * k : k \in 1..GridSize} \cup {14, 15}
    ELSE {10, 10 * (MAX_OFFSET + 2)}

TargetLongitudes(grid) ==
    IF Len(grid.longitudes) = GridSize
    THEN {10 * k : k \in 1..GridSize} \cup {26}
    ELSE {10, 10 * (MAX_OFFSET + 2)}

\* RawCoordinatesExtractor.get_coordinates: city name -> ibge_code, latitude,
\* longitude
RawCoordinates(grid) ==
    UNION {[1..n -> IF Len(grid.latitudes) = GridSize
                    THEN TargetLatitudes(grid) \X TargetLongitudes(grid)
                    ELSE {<<v, v>> : v \in TargetLatitudes(grid)}] : n \in 0..MaxRawCities}

CityCoordinates(targets) ==
    [k \in 1..Len(targets) |->
        [ city_name |-> k,
          details |-> [ ibge_code |-> 100 + k,
                        latitude |-> targets[k][1],
                        longitude |-> targets[k][2] ] ]]

\* ---------------------------------------------------- the finder's steps
\* CoordinatesFinder.__init__
NewFinder ==
    /\ finder = None /\ fm_pc = "idle"
    /\ \E grid \in ReferenceGrids :
         \E targets \in RawCoordinates(grid) :
            finder' = Some([ latitudes |-> grid.latitudes,
                             longitudes |-> grid.longitudes,
                             precipitation |-> grid.precipitation,
                             city_coordinates |-> CityCoordinates(targets) ])
    /\ UNCHANGED << fm_pc, fm_raised, city_index, nearest_matching_coordinates,
                    searches, call >>
    /\ UNCHANGED driver

\* find_matching_coordinates is called (line 287)
FindMatchingCoordinates ==
    /\ finder # None /\ fm_pc \in {"idle", "returned"}
    /\ fm_pc' = "loop" /\ fm_raised' = ""
    /\ city_index' = 1
    /\ nearest_matching_coordinates' = <<>>
    /\ searches' = <<>>
    /\ UNCHANGED << finder, call >>
    /\ UNCHANGED driver

\* lines 288-311: one iteration of the loop over self.city_coordinates
ResolveCity ==
    /\ fm_pc = "loop"
    /\ city_index <= Len(finder[1].city_coordinates)
    /\ LET self == finder[1]
           city_name == self.city_coordinates[city_index].city_name
           details == self.city_coordinates[city_index].details
       IN IF "latitude" \notin DOMAIN details
          THEN /\ fm_pc' = "failed" /\ fm_raised' = "KeyError"
               /\ UNCHANGED << finder, city_index, nearest_matching_coordinates,
                               searches >>
          ELSE LET target_latitude == details.latitude
                   target_longitude == details.longitude
                   popped == [ibge_code |-> details.ibge_code]
                   found == SearchNearestCoordinates(self, target_latitude,
                                                     target_longitude)
               IN /\ finder' = Some([self EXCEPT
                                        !.city_coordinates[city_index].details = popped])
                  /\ searches' = Append(searches,
                                        [ city_name |-> city_name,
                                          target |-> <<target_latitude, target_longitude>>,
                                          result |-> found ])
                  /\ IF found.exc = ""
                     THEN /\ nearest_matching_coordinates' =
                                Append(nearest_matching_coordinates,
                                       [ city_name |-> city_name,
                                         target |-> [lat |-> target_latitude,
                                                     lon |-> target_longitude],
                                         nearest |-> [lat |-> found.val[1][1],
                                                      lon |-> found.val[1][2]],
                                         ibge_code |-> popped.ibge_code ])
                          /\ city_index' = city_index + 1
                          /\ UNCHANGED << fm_pc, fm_raised >>
                     ELSE IF found.exc = "ReachedCoordinatesOffsetLimitError"
                     THEN /\ city_index' = city_index + 1
                          /\ UNCHANGED << fm_pc, fm_raised,
                                          nearest_matching_coordinates >>
                     ELSE /\ fm_pc' = "failed" /\ fm_raised' = found.exc
                          /\ UNCHANGED << city_index, nearest_matching_coordinates >>
    /\ UNCHANGED call
    /\ UNCHANGED driver

\* line 312: return nearest_matching_coordinates
ReturnMatchingCoordinates ==
    /\ fm_pc = "loop"
    /\ city_index > Len(finder[1].city_coordinates)
    /\ fm_pc' = "returned"
    /\ UNCHANGED << finder, fm_raised, city_index, nearest_matching_coordinates,
                    searches, call >>
    /\ UNCHANGED driver

NextFinder ==
    \/ NewFinder
    \/ FindMatchingCoordinates
    \/ ResolveCity
    \/ ReturnMatchingCoordinates

SpecFinder == Init /\ [][NextFinder]_vars

\* ------------------------------------------------- claims on the finder
\* the index of the axis value nearest to the target (the first of them when
\* two are equally near), and whether a cell has an unmasked time step
NearestIndex(values, target) ==
    CHOOSE i \in 0..(Len(values) - 1) :
        \A k \in 0..(Len(values) - 1) :
            \/ Abs(values[i + 1] - target) < Abs(values[k + 1] - target)
            \/ (Abs(values[i + 1] - target) = Abs(values[k + 1] - target) /\ i <= k)

CellHasValidStep(precipitation, i, j) ==
    \E t \in 1..precipitation.shape[1] : ~precipitation.mask[t][i + 1][j + 1]

InitialCell(search) ==
    << NearestIndex(finder[1].latitudes, search.target[1]),
       NearestIndex(finder[1].longitudes, search.target[2]) >>

InitialCellValid(search) ==
    CellHasValidStep(finder[1].precipitation, InitialCell(search)[1], InitialCell(search)[2])

\* the grid cell (0-based indices) whose coordinates a search returned
ReturnedCell(search) ==
    CHOOSE c \in (0..(Len(finder[1].latitudes) - 1)) \X (0..(Len(finder[1].longitudes) - 1)) :
        /\ finder[1].latitudes[c[1] + 1] = search.result.val[1][1]
        /\ finder[1].longitudes[c[2] + 1] = search.result.val[1][2]

Chebyshev(c, d) == Max(Abs(c[1] - d[1]), Abs(c[2] - d[2]))

ValidCells ==
    {c \in (0..(Len(finder[1].latitudes) - 1)) \X (0..(Len(finder[1].longitudes) - 1)) :
        CellHasValidStep(finder[1].precipitation, c[1], c[2])}

\* C12: when the cell at the per-axis nearest indices has at least one valid
\* time step, the resolver returns that cell's coordinates and has probed no
\* other cell.
C12_ValidInitialCellReturned ==
    \A k \in 1..Len(searches) :
        InitialCellValid(searches[k]) =>
            /\ searches[k].result.exc = ""
            /\ searches[k].result.val[1] =
                  << finder[1].latitudes[InitialCell(searches[k])[1] + 1],
                     finder[1].longitudes[InitialCell(searches[k])[2] + 1] >>
            /\ {p.cell : p \in searches[k].result.probed} = {InitialCell(searches[k])}
            /\ Cardinality(searches[k].result.probed) = 1

\* C12 witness: a target between two axis values was resolved to its nearest
\* cell, which is masked at one time step and valid at another.
C12_PartlyMaskedCellReturned ==
    \E k \in 1..Len(searches) :
        LET c == InitialCell(searches[k])
        IN /\ InitialCellValid(searches[k])
           /\ \E t \in 1..TimeSteps : finder[1].precipitation.mask[t][c[1] + 1][c[2] + 1]
           /\ searches[k].target[1] # finder[1].latitudes[c[1] + 1]
           /\ searches[k].result.val[1] =
                 <<finder[1].latitudes[c[1] + 1], finder[1].longitudes[c[2] + 1]>>

\* C13: when the initial cell is invalid, the cell the spiral search returns
\* has valid data and no grid cell with valid data is nearer to the initial
\* cell in Chebyshev index distance, whatever the initial index.
C13_ClosestFirst ==
    \A k \in 1..Len(searches) :
        (~InitialCellValid(searches[k]) /\ searches[k].result.exc = "") =>
            /\ ReturnedCell(searches[k]) \in ValidCells
            /\ \A c \in ValidCells :
                  Chebyshev(ReturnedCell(searches[k]), InitialCell(searches[k]))
                      <= Chebyshev(c, InitialCell(searches[k]))

\* C14: a spiral search ends either by returning a cell or by the
\* search-exhausted error, by the latter exactly when no candidate cell it
\* probed has valid data, and by no other error.
C14_ReturnsOrExhausted ==
    \A k \in 1..Len(searches) :
        ~InitialCellValid(searches[k]) =>
            /\ searches[k].result.exc \in {"", "ReachedCoordinatesOffsetLimitError"}
            /\ searches[k].result.exc = "ReachedCoordinatesOffsetLimitError" <=>
                  \A p \in searches[k].result.probed :
                      CoordinatesHavePrecipitationData(
                          finder[1].precipitation, p.cell[1], p.cell[2]) = Ok(FALSE)

\* C15: every city of the result carries its target and a nearest coordinate
\* of a cell that has a valid time step; when the call has returned, a city is
\* missing from the result exactly when its search was exhausted; and the
\* call over the raw cities returns, one city's search never keeping the
\* other cities from being resolved (only a repeated call on the same object,
\* whose city details the first call consumed, fails).
C15_EveryCityResolved ==
    /\ \A k \in 1..Len(nearest_matching_coordinates) :
          LET entry == nearest_matching_coordinates[k]
          IN /\ \E n \in 1..Len(searches) :
                   /\ searches[n].city_name = entry.city_name
                   /\ searches[n].target = <<entry.target.lat, entry.target.lon>>
             /\ \E c \in ValidCells :
                   /\ finder[1].latitudes[c[1] + 1] = entry.nearest.lat
                   /\ finder[1].longitudes[c[2] + 1] = entry.nearest.lon
    /\ fm_pc = "returned" =>
          /\ Len(searches) = Len(finder[1].city_coordinates)
          /\ \A n \in 1..Len(searches) :
                (searches[n].result.exc = "ReachedCoordinatesOffsetLimitError")
                    <=> ~ \E k \in 1..Len(nearest_matching_coordinates) :
                             nearest_matching_coordinates[k].city_name =
                                 searches[n].city_name
    /\ fm_pc = "failed" => fm_raised = "KeyError"

\* the searches that went on to the spiral, and the cells of the grid
SpiralSearches == {k \in 1..Len(searches) : ~InitialCellValid(searches[k])}
GridCells ==
    (0..(Len(finder[1].latitudes) - 1)) \X (0..(Len(finder[1].longitudes) - 1))

\* C24: every index pair probed by the spiral search is at most (number of
\* latitudes - 1, number of longitudes - 1), and its probe addresses an
\* existing cell.
C24_ProbesClamped ==
    \A k \in SpiralSearches :
        \A p \in searches[k].result.probed :
            p.offset >= 1 =>
                /\ p.cell[1] <= Len(finder[1].latitudes) - 1
                /\ p.cell[2] <= Len(finder[1].longitudes) - 1
                /\ CoordinatesHavePrecipitationData(
                       finder[1].precipitation, p.cell[1], p.cell[2]).exc = ""

\* the k-th offset of a pass (0, -1, +1, -2, +2, ...) and the place of an
\* offset in that order
OffsetAt(k) == IF k = 0 THEN 0 ELSE IF k % 2 = 1 THEN -((k + 1) \div 2) ELSE k \div 2
PlaceOf(d) == IF d = 0 THEN 0 ELSE IF d < 0 THEN 2 * (-d) - 1 ELSE 2 * d

\* the visiting order puts cell c before cell d (seen from the initial cell):
\* by ring, then by latitude offset, then by longitude offset
VisitedBefore(c, d, initial) ==
    LET key(x) == << Chebyshev(x, initial), PlaceOf(x[1] - initial[1]),
                     PlaceOf(x[2] - initial[2]) >>
    IN \/ key(c)[1] < key(d)[1]
       \/ key(c)[1] = key(d)[1] /\ key(c)[2] < key(d)[2]
       \/ key(c)[1] = key(d)[1] /\ key(c)[2] = key(d)[2] /\ key(c)[3] <= key(d)[3]

\* the probes follow the order of the offsets: the n-th step of the pass of
\* offset o is at latitude offset OffsetAt(n div (2o+1)) and longitude offset
\* OffsetAt(n mod (2o+1)), up to the clamp
C25_ProbesInOffsetOrder ==
    \A k \in SpiralSearches :
        \A p \in searches[k].result.probed :
            p.offset >= 1 =>
                LET initial == InitialCell(searches[k])
                    width == 2 * p.offset + 1
                IN /\ p.offset \in 1..MAX_OFFSET
                   /\ p.n \in 0..(width * width - 1)
                   /\ p.cell[1] = Min(initial[1] + OffsetAt(p.n \div width),
                                      MAX_LATITUDE_INDEX(finder[1]))
                   /\ p.cell[2] = Min(initial[2] + OffsetAt(p.n % width),
                                      MAX_LONGITUDE_INDEX(finder[1]))

\* no index pair is probed twice
C25_NoPairProbedTwice ==
    \A k \in SpiralSearches :
        \A p, q \in searches[k].result.probed : p.cell = q.cell => p = q

\* the first cell with valid data in the visiting order is returned
C25_FirstValidReturned ==
    \A k \in SpiralSearches :
        LET initial == InitialCell(searches[k])
            inReach == {c \in ValidCells : Chebyshev(c, initial) <= MAX_OFFSET}
        IN inReach # {} =>
              /\ searches[k].result.exc = ""
              /\ ReturnedCell(searches[k]) \in inReach
              /\ \A c \in inReach : VisitedBefore(ReturnedCell(searches[k]), c, initial)

\* with every neighbour of the initial cell valid, the cell at
\* (lat index, lon index - 1) is returned
C25_LeftNeighbourReturned ==
    \A k \in SpiralSearches :
        LET initial == InitialCell(searches[k])
        IN {c \in GridCells : Chebyshev(c, initial) = 1} \subseteq ValidCells =>
              /\ searches[k].result.exc = ""
              /\ <<initial[1], initial[2] - 1>> \in GridCells
              /\ ReturnedCell(searches[k]) = <<initial[1], initial[2] - 1>>

\* C25: the spiral search visits, for each offset 1..15 in increasing order,
\* the latitude offsets 0, -1, +1, -2, +2, ... and for each of them the
\* longitude offsets in the same order; it probes no index pair twice; it
\* returns the first valid cell in this order, so that with every ring-1
\* neighbour valid the result is the cell at (lat index, lon index - 1).
C25_VisitingOrder ==
    /\ C25_ProbesInOffsetOrder
    /\ C25_NoPairProbedTwice
    /\ C25_FirstValidReturned
    /\ C25_LeftNeighbourReturned

\* ========================================================= NetCDFExtractor
\* Calls of the extractor on grids of two latitudes and two longitudes.  Each
\* time step is of one kind: at a "masked" step the cell (1, 1) is masked
\* (over a stored number), at a "nan" step it holds an unmasked NaN, at a
\* "plain" step it holds a number; the cell (2, 2) takes the kinds in the
\* order nan, plain, masked instead, and the other cells hold numbers.  A
\* behaviour observes one call: the functions are pure.
MaxSteps == 3

StepKinds == {"plain", "masked", "nan"}

KindAt(kind, i, j) ==
    IF i = 1 /\ j = 1 THEN kind
    ELSE IF i = 2 /\ j = 2
         THEN (CASE kind = "plain" -> "nan" [] kind = "masked" -> "plain"
                 [] OTHER -> "masked")
         ELSE "plain"

ExtractorGrid(lats, lons, kinds) ==
    [ time |-> [units  |-> <<"days", "since", 100>>,
                values |-> [t \in 1..Len(kinds) |-> 2 * (t - 1)]],
      lat  |-> [units |-> <<"degrees_north">>, values |-> lats],
      lon  |-> [units |-> <<"degrees_east">>, values |-> lons],
      pr   |-> [units |-> <<"mm">>,
                data  |-> [t \in 1..Len(kinds) |-> [i \in 1..Len(lats) |->
                              [j \in 1..Len(lons) |->
                                  IF KindAt(kinds[t], i, j) = "nan" THEN None
                                  ELSE Some(10 * t + 3 * i + j)]]],
                mask  |-> [t \in 1..Len(kinds) |-> [i \in 1..Len(lats) |->
                              [j \in 1..Len(lons) |->
                                  KindAt(kinds[t], i, j) = "masked"]]]] ]

ExtractorAxes == {<<1, 2>>, <<1, 3>>}

ExtractorGrids ==
    {ExtractorGrid(lats, lons, kinds) :
        lats \in ExtractorAxes, lons \in ExtractorAxes,
        kinds \in UNION {[1..n -> StepKinds] : n \in 0..MaxSteps}}

ExtractorTargets == 0..3

\* NetCDFExtractor(source_path).extract_precipitation(target_latitude, target_longitude)
CallExtractPrecipitation ==
    /\ call = None
    /\ \E variables \in ExtractorGrids, target_latitude \in ExtractorTargets,
          target_longitude \in ExtractorTargets :
          call' = Some([ fn |-> "extract_precipitation",
                         variables |-> variables,
                         args |-> <<target_latitude, target_longitude>>,
                         result |-> ExtractPrecipitation(variables, target_latitude,
                                                         target_longitude) ])
    /\ UNCHANGED << finder, fm_pc, fm_raised, city_index,
                    nearest_matching_coordinates, searches >>
    /\ UNCHANGED driver

\* NetCDFExtractor(source_path)._find_coordinates_indices(target_latitude, target_longitude)
CallFindCoordinatesIndices ==
    /\ call = None
    /\ \E variables \in ExtractorGrids, target_latitude \in ExtractorTargets,
          target_longitude \in ExtractorTargets :
          call' = Some([ fn |-> "_find_coordinates_indices",
                         variables |-> variables,
                         args |-> <<target_latitude, target_longitude>>,
                         result |-> FindCoordinatesIndices(variables, target_latitude,
                                                           target_longitude) ])
    /\ UNCHANGED << finder, fm_pc, fm_raised, city_index,
                    nearest_matching_coordinates, searches >>
    /\ UNCHANGED driver

NextExtractor ==
    \/ CallExtractPrecipitation
    \/ CallFindCoordinatesIndices

SpecExtractor == Init /\ [][NextExtractor]_vars

\* the call recorded last is a call of the named function
Called(fn) == call # None /\ call[1].fn = fn

\* the position of a value on an axis, 0 when it is not a value of the axis
PositionOf(values, target) ==
    IF \E k \in 1..Len(values) : values[k] = target
    THEN CHOOSE k \in 1..Len(values) :
             values[k] = target /\ \A m \in 1..(k - 1) : values[m] # target
    ELSE 0

C17_ExactMatchLookup ==
    Called("_find_coordinates_indices") =>
        LET variables == call[1].variables
            result == call[1].result
            absent == \/ \A k \in 1..Len(variables.lat.values) :
                            variables.lat.values[k] # call[1].args[1]
                      \/ \A k \in 1..Len(variables.lon.values) :
                            variables.lon.values[k] # call[1].args[2]
        IN /\ result.exc \in {"", "InvalidTargetCoordinatesError"}
           /\ result.exc = "InvalidTargetCoordinatesError" <=> absent
           /\ result.exc = "" =>
                 /\ variables.lat.values[result.val[1][1]] = call[1].args[1]
                 /\ variables.lon.values[result.val[1][2]] = call[1].args[2]

\* C17 witness: the latitude is on its axis and the longitude lies between two
\* values of its axis; the lookup failed.
C17_NearbyValueRejected ==
    /\ Called("_find_coordinates_indices")
    /\ call[1].variables.lat.values = <<1, 2>> /\ call[1].args[1] = 2
    /\ call[1].variables.lon.values = <<1, 3>> /\ call[1].args[2] = 2
    /\ call[1].result.exc = "InvalidTargetCoordinatesError"

\* ============================================ run lengths, IndicesCalculator
\* (agents/calculator.py).  A pandas Series is the sequence of its values, a
\* DataFrame the sequence of its rows; a value that pandas reports as NaN
\* (a year missing from a grouped column) is None.
MaxRun == 6
MaxDays == 4
MaxUneven == 2

\* sum(values) and max(values) of a sequence of numbers
RECURSIVE SeqSum(_)
SeqSum(values) == IF values = <<>> THEN 0 ELSE Head(values) + SeqSum(Tail(values))

SeqMax(values) ==
    CHOOSE m \in {values[k] : k \in 1..Len(values)} :
        \A k \in 1..Len(values) : values[k] <= m

\* the number of True values of the whole series
CountTruthy(series) == Cardinality({k \in 1..Len(series) : series[k]})

\* find_max_consecutive_run_length on a boolean series:
\*   (series != series.shift()).cumsum() numbers the runs of equal values,
\*   series.astype(bool).groupby(...).sum() counts the True values of each run
FindMaxConsecutiveRunLength(series) ==
    IF ~ \E k \in 1..Len(series) : series[k]
    THEN 0
    ELSE LET changed == [k \in 1..Len(series) |-> k = 1 \/ series[k] # series[k - 1]]
             run(k) == Cardinality({m \in 1..k : changed[m]})
             sums == [g \in 1..run(Len(series)) |->
                         Cardinality({k \in 1..Len(series) : run(k) = g /\ series[k]})]
         IN SeqMax(sums)

\* ascending sort of a sequence of numbers (duplicates kept)
RECURSIVE SortValues(_)
SortValues(values) ==
    IF values = <<>> THEN <<>>
    ELSE LET k == CHOOSE i \in 1..Len(values) : \A m \in 1..Len(values) :
                                                    values[i] <= values[m]
         IN <<values[k]>> \o SortValues([m \in 1..(Len(values) - 1) |->
                                            IF m < k THEN values[m] ELSE values[m + 1]])

\* auxiliary columns in which a day of exactly 1 mm is dry as well as wet
DataFrameDryUpToOne(data_series) ==
    [k \in 1..Len(data_series) |->
        [ date |-> data_series[k][1],
          precipitation |-> data_series[k][2],
          year |-> data_series[k][1].year,
          month |-> data_series[k][1].month,
          dry_days |-> data_series[k][2] <= 1,
          wet_days |-> data_series[k][2] >= 1,
          rolling_5day |-> SeqSum([m \in 1..Min(k, 5) |->
                                      data_series[k - Min(k, 5) + m][2]]) ]]

\* IndicesCalculator.__init__ and _set_auxiliary_columns: one row per entry of
\* the data series
DataFrame(data_series) ==
    [k \in 1..Len(data_series) |->
        [ date |-> data_series[k][1],
          precipitation |-> data_series[k][2],
          year |-> data_series[k][1].year,
          month |-> data_series[k][1].month,
          dry_days |-> data_series[k][2] < 1,
          wet_days |-> data_series[k][2] >= 1,
          rolling_5day |-> SeqSum([m \in 1..Min(k, 5) |->
                                      data_series[k - Min(k, 5) + m][2]]) ]]

\* the keys of df.groupby("year"), ascending, and the rows of one group
GroupKeys(df) == SortedSeq({df[k].year : k \in 1..Len(df)})
GroupRows(df, year) == SelectSeq(df, LAMBDA row : row.year = year)
Column(rows, name) == [k \in 1..Len(rows) |-> rows[k][name]]

\* 20 times df["precipitation"].quantile(0.95) (linear interpolation)
Quantile95Times20(df) ==
    LET sorted == SortValues(Column(df, "precipitation"))
        position == 19 * (Len(df) - 1)
        low == (position \div 20) + 1
        high == IF low < Len(df) THEN low + 1 ELSE low
    IN 20 * sorted[low] + (position % 20) * (sorted[high] - sorted[low])

\* a seasonality index that sums the signed deviations
ComputeSeasonalityIndexSigned(df) ==
    LET yearly_precipitation == SeqSum(Column(df, "precipitation"))
        months == {df[k].month : k \in 1..Len(df)}
        monthly_precipitation(month) ==
            SeqSum(Column(SelectSeq(df, LAMBDA row : row.month = month), "precipitation"))
        deviations == [k \in 1..Cardinality(months) |->
                          12 * monthly_precipitation(SortedSeq(months)[k])
                              - yearly_precipitation]
    IN IF yearly_precipitation <= 0 THEN None
       ELSE Some(Ratio(SeqSum(deviations), 12 * yearly_precipitation))

\* compute_seasonality_index on the rows of one year
ComputeSeasonalityIndex(df) ==
    LET yearly_precipitation == SeqSum(Column(df, "precipitation"))
        months == {df[k].month : k \in 1..Len(df)}
        monthly_precipitation(month) ==
            SeqSum(Column(SelectSeq(df, LAMBDA row : row.month = month), "precipitation"))
        deviations == [k \in 1..Cardinality(months) |->
                          Abs(12 * monthly_precipitation(SortedSeq(months)[k])
                              - yearly_precipitation)]
    IN IF yearly_precipitation <= 0 THEN None
       ELSE Some(Ratio(SeqSum(deviations), 12 * yearly_precipitation))

\* df[filter].groupby("year"): the rows of each year of df among the filtered
\* rows; a year none of whose rows passed the filter has no group, and its
\* value in the assembled frame is NaN (None)
Grouped(df, filtered) ==
    [year \in {df[k].year : k \in 1..Len(df)} |->
        LET rows == GroupRows(filtered, year)
        IN IF rows = <<>> THEN None ELSE Some(rows)]

\* the row filters and aggregations of compute_climate_indices
IsWet(row) == row.wet_days
IsHeavy(row) == row.precipitation >= 20
Total(rows) == SeqSum(Column(rows, "precipitation"))
Mean(rows) == Ratio(Total(rows), Len(rows))

\* a mean intensity taken over all the days of the year
SdiiOverAllDays(df) ==
    LET groups == Grouped(df, df)
    IN [year \in DOMAIN groups |->
           IF groups[year] = None THEN None ELSE Some(Mean(groups[year][1]))]

\* line 156: self.df[self.df["wet_days"]].groupby("year")["precipitation"].mean()
Sdii(df) ==
    LET groups == Grouped(df, SelectSeq(df, IsWet))
    IN [year \in DOMAIN groups |->
           IF groups[year] = None THEN None ELSE Some(Mean(groups[year][1]))]

\* IndicesCalculator.compute_climate_indices
ComputeClimateIndices(df) ==
    LET extreme(row) == 20 * row.precipitation > Quantile95Times20(df)
        aggregate(groups, value(_)) ==
            [year \in DOMAIN groups |->
                IF groups[year] = None THEN None ELSE Some(value(groups[year][1]))]
        rx1day == aggregate(Grouped(df, df),
                            LAMBDA rows : SeqMax(Column(rows, "precipitation")))
        rx5day == aggregate(Grouped(df, df),
                            LAMBDA rows : SeqMax(Column(rows, "rolling_5day")))
        sdii == Sdii(df)
        r20mm == aggregate(Grouped(df, SelectSeq(df, IsHeavy)), Len)
        cdd == aggregate(Grouped(df, df), LAMBDA rows :
                   FindMaxConsecutiveRunLength(Column(rows, "dry_days")))
        cwd == aggregate(Grouped(df, df), LAMBDA rows :
                   FindMaxConsecutiveRunLength(Column(rows, "wet_days")))
        r95p == aggregate(Grouped(df, SelectSeq(df, extreme)), Total)
        prcptot == aggregate(Grouped(df, SelectSeq(df, IsWet)), Total)
        years == GroupKeys(df)
    IN [k \in 1..Len(years) |->
           [ year |-> years[k],
             PRCPTOT |-> prcptot[years[k]],
             R95p |-> r95p[years[k]],
             RX1day |-> rx1day[years[k]],
             RX5day |-> rx5day[years[k]],
             SDII |-> sdii[years[k]],
             R20mm |-> r20mm[years[k]],
             CDD |-> cdd[years[k]],
             CWD |-> cwd[years[k]],
             Seasonality_Index |-> ComputeSeasonalityIndex(GroupRows(df, years[k])) ]]

\* -------------------------------------------------- the calculator's inputs
\* boolean series of up to MaxRun values
BooleanSeries == UNION {[1..n -> BOOLEAN] : n \in 0..MaxRun}

\* data series of up to MaxDays days in date order, over two years and two
\* months, with dry (0), wet (1) and heavy (20) days
Dates == {[year |-> y, month |-> m] : y \in {2000, 2001}, m \in {1, 2}}
Precipitations == {0, 1, 20}

DateOrder(date) == 12 * date.year + date.month

DataSeries ==
    UNION {{series \in [1..n -> Dates \X Precipitations] :
               \A k \in 1..(n - 1) : DateOrder(series[k][1]) <= DateOrder(series[k + 1][1])}
           : n \in 1..MaxDays}

\* find_max_consecutive_run_length(series)
CallFindMaxConsecutiveRunLength ==
    /\ call = None
    /\ \E series \in BooleanSeries :
          call' = Some([ fn |-> "find_max_consecutive_run_length",
                         args |-> series,
                         result |-> FindMaxConsecutiveRunLength(series) ])
    /\ UNCHANGED << finder, fm_pc, fm_raised, city_index,
                    nearest_matching_coordinates, searches >>
    /\ UNCHANGED driver

\* IndicesCalculator(data_series).compute_climate_indices()
CallComputeClimateIndices ==
    /\ call = None
    /\ \E data_series \in DataSeries :
          call' = Some([ fn |-> "compute_climate_indices",
                         args |-> data_series,
                         result |-> ComputeClimateIndices(DataFrame(data_series)) ])
    /\ UNCHANGED << finder, fm_pc, fm_raised, city_index,
                    nearest_matching_coordinates, searches >>
    /\ UNCHANGED driver

\* the frames of one year given to compute_seasonality_index: every month
\* holds the same rows, except up to MaxUneven months that have no row, one
\* row of another value (a negative one included) or two rows
MonthRows == {<<>>, <<-1>>, <<0>>, <<3>>, <<1, 2>>}
EvenMonthRows == {<<0>>, <<1>>, <<3>>}

RECURSIVE FrameRows(_, _)
FrameRows(days, month) ==
    IF month > 12 THEN <<>>
    ELSE [k \in 1..Len(days[month]) |-> [month |-> month, precipitation |-> days[month][k]]]
             \o FrameRows(days, month + 1)

YearFrames ==
    {FrameRows([month \in 1..12 |-> IF month \in DOMAIN uneven THEN uneven[month] ELSE even], 1) :
        even \in EvenMonthRows,
        uneven \in UNION {[D -> MonthRows] :
                             D \in {E \in SUBSET (1..12) : Cardinality(E) <= MaxUneven}}}

\* compute_seasonality_index(df)
CallComputeSeasonalityIndex ==
    /\ call = None
    /\ \E df \in YearFrames :
          call' = Some([ fn |-> "compute_seasonality_index",
                         args |-> df,
                         result |-> ComputeSeasonalityIndex(df) ])
    /\ UNCHANGED << finder, fm_pc, fm_raised, city_index,
                    nearest_matching_coordinates, searches >>
    /\ UNCHANGED driver

NextCalculator ==
    \/ CallFindMaxConsecutiveRunLength
    \/ CallComputeClimateIndices
    \/ CallComputeSeasonalityIndex

SpecCalculator == Init /\ [][NextCalculator]_vars

\* ---------------------------------------------- claims on the calculator
\* C18: for every boolean sequence the result is the length of the longest
\* run of consecutive True values; it is 0 for the empty sequence, at most the
\* length of the sequence, and 0 exactly when no element is True.
C18_LongestTrueRun ==
    Called("find_max_consecutive_run_length") =>
        LET series == call[1].args
            result == call[1].result
            IsRun(first, length) == \A k \in first..(first + length - 1) : series[k]
        IN /\ result \in 0..Len(series)
           /\ result > 0 => \E first \in 1..(Len(series) - result + 1) :
                                IsRun(first, result)
           /\ \A length \in (result + 1)..Len(series) :
                 ~ \E first \in 1..(Len(series) - length + 1) : IsRun(first, length)
           /\ result = 0 <=> \A k \in 1..Len(series) : ~series[k]

\* C18 witness: a sequence with two runs of True, the longer one second,
\* gave the length of the longer run, which is less than the number of Trues.
C18_SecondRunLonger ==
    /\ Called("find_max_consecutive_run_length")
    /\ call[1].args = <<TRUE, FALSE, TRUE, TRUE, TRUE, FALSE>>
    /\ call[1].result = 3

\* the rows of the year of a data series
DaysOf(data_series, year) == SelectSeq(data_series, LAMBDA day : day[1].year = year)

\* C19: the result has one record per distinct year of the series, and in
\* every record R20mm is the number of that year's days with precipitation
\* of 20 or more, 0 when the year has no such day.
C19_OneRecordPerYearR20mm ==
    Called("compute_climate_indices") =>
        LET data_series == call[1].args
            records == call[1].result
            years == {data_series[k][1].year : k \in 1..Len(data_series)}
        IN /\ Len(records) = Cardinality(years)
           /\ {records[k].year : k \in 1..Len(records)} = years
           /\ \A k \in 1..Len(records) :
                 records[k].R20mm =
                     Some(Len(SelectSeq(DaysOf(data_series, records[k].year),
                                        LAMBDA day : day[2] >= 20)))

\* arithmetic on values that may be NaN (None): a product with NaN is NaN,
\* and NaN equals nothing
NanTimes(x, n) == IF x = None THEN None ELSE Some(Ratio(x[1].num * n, x[1].den))
NanEquals(x, y) == x # None /\ y # None /\ x[1].num = y[1] * x[1].den

WetDays(data_series, year) ==
    SelectSeq(DaysOf(data_series, year), LAMBDA day : day[2] >= 1)

\* C20 as stated: for a series with at least one wet day, in the record of
\* each year of the series SDII times the year's wet-day count equals PRCPTOT.
C20_SdiiTimesWetDaysAllYears ==
    (/\ Called("compute_climate_indices")
     /\ \E k \in 1..Len(call[1].args) : call[1].args[k][2] >= 1) =>
        \A k \in 1..Len(call[1].result) :
            LET record == call[1].result[k]
            IN NanEquals(NanTimes(record.SDII,
                                  Len(WetDays(call[1].args, record.year))),
                         record.PRCPTOT)

\* C20 as amended: in the record of each year that has at least one wet day
\* SDII times the year's wet-day count equals PRCPTOT, which is the sum of
\* the year's wet days; in the record of a year without a wet day SDII is
\* NaN, so the product equals nothing.
C20_SdiiTimesWetDays ==
    Called("compute_climate_indices") =>
        \A k \in 1..Len(call[1].result) :
            LET record == call[1].result[k]
                wet == WetDays(call[1].args, record.year)
            IN IF wet = <<>>
               THEN /\ record.SDII = None
                    /\ ~NanEquals(NanTimes(record.SDII, 0), Some(0))
               ELSE /\ NanEquals(NanTimes(record.SDII, Len(wet)), record.PRCPTOT)
                    /\ record.PRCPTOT = Some(SeqSum([d \in 1..Len(wet) |-> wet[d][2]]))

\* C20 witness: a year with two wet days of different amounts and a dry day,
\* followed by a year without a wet day.
C20_WetYearThenDryYear ==
    /\ Called("compute_climate_indices")
    /\ Len(call[1].result) = 2
    /\ Len(WetDays(call[1].args, 2000)) = 2
    /\ Len(DaysOf(call[1].args, 2000)) = 3
    /\ call[1].result[1].PRCPTOT = Some(21)
    /\ call[1].result[1].SDII = Some(Ratio(21, 2))
    /\ call[1].result[2].SDII = None

\* the total of the rows of a month in a frame of month and precipitation rows
MonthlyTotal(df, month) ==
    SeqSum([k \in 1..Len(df) |-> IF df[k].month = month THEN df[k].precipitation ELSE 0])

C21_EvenYear ==
    /\ Called("compute_seasonality_index")
    /\ \A month \in 1..12 : MonthlyTotal(call[1].args, month) = 3
    /\ call[1].result = Some(Ratio(0, 12 * 36))

\* the length of the longest run of consecutive TRUE values
LongestRun(flags) ==
    CHOOSE length \in 0..Len(flags) :
        /\ \E first \in 1..(Len(flags) - length + 1) :
              \A k \in first..(first + length - 1) : flags[k]
        /\ \A longer \in (length + 1)..Len(flags) :
              \A first \in 1..(Len(flags) - longer + 1) :
                  \E k \in first..(first + longer - 1) : ~flags[k]

\* C23: in the record of each year CDD is the length of the longest run of
\* consecutive days of that year with precipitation < 1 and CWD that of the
\* days with precipitation >= 1, runs being counted within the year only;
\* max(CDD, CWD) >= 1 and CDD + CWD is at most the number of the year's days.
C23_SpellsWithinYear ==
    Called("compute_climate_indices") =>
        \A k \in 1..Len(call[1].result) :
            LET record == call[1].result[k]
                days == DaysOf(call[1].args, record.year)
                dry == [d \in 1..Len(days) |-> days[d][2] < 1]
                wet == [d \in 1..Len(days) |-> days[d][2] >= 1]
            IN /\ record.CDD = Some(LongestRun(dry))
               /\ record.CWD = Some(LongestRun(wet))
               /\ \A d \in 1..Len(days) : dry[d] # wet[d]
               /\ Max(record.CDD[1], record.CWD[1]) >= 1
               /\ record.CDD[1] + record.CWD[1] <= Len(days)

\* C23 witness: three dry days in a row, the first of them the last day of
\* one year: the years' CDD are 1 and 2, not 3.
C23_DrySpellAcrossYears ==
    /\ Called("compute_climate_indices")
    /\ Len(call[1].args) = 4
    /\ call[1].args[1][2] >= 1
    /\ \A d \in 2..4 : call[1].args[d][2] < 1
    /\ Len(DaysOf(call[1].args, 2000)) = 2
    /\ Len(call[1].result) = 2
    /\ call[1].result[1].CDD = Some(1) /\ call[1].result[1].CWD = Some(1)
    /\ call[1].result[2].CDD = Some(2) /\ call[1].result[2].CWD = Some(0)

\* ==================================================== CoordinatesValidator
\* Calls of get_coordinates (agents/validators.py) on the details of one city:
\* the coordinates sit under the key "nearest" or under another key, each of
\* "lat" and "lon" is present or not, and the values are whole degrees from
\* -MaxDegrees to MaxDegrees.
MaxDegrees == 3

CoordinateValues == (-MaxDegrees)..MaxDegrees

CoordinateDicts == UNION {[K -> CoordinateValues] : K \in SUBSET {"lat", "lon"}}

CityDetailsDicts ==
    {[key \in {name} \cup (IF targeted THEN {"target"} ELSE {}) |->
         IF key = name THEN coordinates ELSE [lat |-> 1, lon |-> 1]] :
        name \in {"nearest", "not_nearest"},
        targeted \in BOOLEAN,
        coordinates \in CoordinateDicts}

\* CoordinatesValidator.get_coordinates(details)
CallGetCoordinates ==
    /\ call = None
    /\ \E details \in CityDetailsDicts :
          call' = Some([ fn |-> "get_coordinates",
                         args |-> details,
                         result |-> GetCoordinates(details) ])
    /\ UNCHANGED << finder, fm_pc, fm_raised, city_index,
                    nearest_matching_coordinates, searches >>
    /\ UNCHANGED driver

NextValidator == CallGetCoordinates

SpecValidator == Init /\ [][NextValidator]_vars

\* C22: get_coordinates returns (nearest.lat, nearest.lon) whenever both keys
\* are present, whatever their numeric values, and raises
\* CoordinatesNotAvailableError exactly when "nearest", "lat" or "lon" is
\* missing.
C22_ReturnsWheneverPresent ==
    Called("get_coordinates") =>
        LET details == call[1].args
            result == call[1].result
            present == /\ "nearest" \in DOMAIN details
                       /\ {"lat", "lon"} \subseteq DOMAIN details.nearest
        IN /\ present => result = Ok(<<details.nearest.lat, details.nearest.lon>>)
           /\ result.exc = "CoordinatesNotAvailableError" <=> ~present
           /\ result.exc \in {"", "CoordinatesNotAvailableError"}

\* ================================================ further claims on the driver
\* the events of the run that concern a pair, and whether the run has replayed
\* every city of its (non-empty) city set for a pair
PairEvents(model_name, scenario_name) ==
    SelectSeq(events, LAMBDA e : e.model = model_name /\ e.scenario = scenario_name)

AllReplayed(model_name, scenario_name) ==
    /\ cities # <<>>
    /\ \A c \in Range(cities) :
          \E k \in 1..Len(events) :
              events[k] = [ kind |-> "replay", model |-> model_name,
                            scenario |-> scenario_name, city |-> c ]

\* C26: when the replay of a pair's snapshot has left no city to process, the
\* driver neither validates nor opens the pair's grid file, extracts nothing
\* and writes no snapshot for the pair, whose file stays as the run found it;
\* the step that finds no city left moves on to the next pair.
C26_NothingLeftSkipsGrid ==
    [][ /\ \A p \in AllPairs :
              AllReplayed(p[1], p[2])' =>
                  /\ \A k \in 1..Len(PairEvents(p[1], p[2])') :
                        PairEvents(p[1], p[2])'[k].kind \in {"replay", "yield"}
                  /\ fs'[RecoveryPath(p[1], p[2])] = start_fs'[RecoveryPath(p[1], p[2])]
        /\ ( /\ pc = "remaining" /\ ~suspended /\ pc' # "idle"
             /\ AllReplayed(model, scenario) )
           => /\ pc' = "loop" /\ si' = si + 1 /\ mi' = mi
              /\ events' = events /\ fs' = fs /\ state' = state
              /\ extractor' = extractor /\ yielded' = yielded
      ]_vars

\* C26 witness: the run replayed both of its cities for its first pair and
\* went on to the next pair without opening the grid of the first.
C26_FirstPairFullyReplayed ==
    /\ pc = "loop" /\ mi = 1 /\ si = 2
    /\ Len(cities) = 2
    /\ AllReplayed(models[1], scenarios[1])
    /\ Len(events) = 4

\* the cities the run has processed successfully for a pair, by replay or by
\* extraction
ProcessedCities(log, model_name, scenario_name) ==
    {log[k].city : k \in {n \in 1..Len(log) :
                             /\ log[n].kind \in {"replay", "success"}
                             /\ log[n].model = model_name
                             /\ log[n].scenario = scenario_name}}

\* the step ends the pass over the current pair
PassCompletes ==
    /\ pc \in {"remaining", "dump", "dump_replace"}
    /\ pc' = "loop" /\ si' = si + 1

\* C27: when the pass over a pair completes, the pair's persisted snapshot
\* holds every city the run processed successfully for the pair, the replayed
\* ones included; and, until the temporary directory is cleared, no city of
\* the run's city set leaves the snapshot of a pair.
C27_SnapshotHoldsAllProcessed ==
    [][ /\ PassCompletes =>
              ProcessedCities(events', model, scenario)
                  \subseteq SnapshotCities(fs', model, scenario)
        /\ fs' # EmptyDir =>
              \A p \in AllPairs :
                  (SnapshotCities(fs, p[1], p[2]) \cap Range(cities))
                      \subseteq SnapshotCities(fs', p[1], p[2])
      ]_vars

\* the place of a yielded element in the order of the inputs: the indices of
\* its model, scenario and city
IndexIn(seq, x) == CHOOSE k \in 1..Len(seq) : seq[k] = x

InputPlace(element) ==
    << IndexIn(models, element.metadata.model),
       IndexIn(scenarios, element.metadata.scenario),
       IndexIn(cities, element.metadata.city) >>

Precedes(a, b) ==
    \/ a[1] < b[1]
    \/ a[1] = b[1] /\ a[2] < b[2]
    \/ a[1] = b[1] /\ a[2] = b[2] /\ a[3] < b[3]

\* C28: the elements a run yields, resumed from snapshots or not, come in the
\* order of the inputs (models, then scenarios, then cities), and the sequence
\* yielded by a resumed run is the one a run from scratch over the same inputs
\* yields.
C28_OrderPreservedOnResume ==
    /\ \A k \in 1..(Len(yielded) - 1) :
          Precedes(InputPlace(yielded[k]), InputPlace(yielded[k + 1]))
    /\ (Comparing /\ ReachedFinal) => yielded = ref[1].yielded

\* the places in the log of the generate_csv calls made for the combination of
\* the event at place k
CsvCallsFor(k) ==
    {n \in 1..Len(events) :
        /\ events[n].kind = "csv"
        /\ events[n].model = events[k].model
        /\ events[n].scenario = events[k].scenario
        /\ events[n].city = events[k].city}

\* C29: with a CSV exporter configured, every yielded series, extracted or
\* replayed, was passed to generate_csv exactly once, with its city, model and
\* scenario, before it was yielded; without an exporter generate_csv is never
\* called.
C29_ExportedBeforeYield ==
    /\ csv_generator =>
          \A k \in 1..Len(events) :
              events[k].kind = "yield" =>
                  /\ Cardinality(CsvCallsFor(k)) = 1
                  /\ \A n \in CsvCallsFor(k) : n < k
    /\ ~csv_generator =>
          \A k \in 1..Len(events) : events[k].kind # "csv"

\* a step of the generator: the run is under way before and after it
InRun == pc \notin Terminal /\ pc' \notin Terminal

DerivedStatistics(st) == << st.skipped, st.success, st.success_rate, st.process_rate >>

\* C30: between the delivery of an element and the consumer's next request
\* the driver does nothing: no counter changes, no grid file is opened, no
\* snapshot is written. A delivery suspends the driver, and the combination
\* was counted before it; a snapshot is written only once the consumer has
\* asked for the element after the pair's last city; the derived statistics
\* are computed only when the loops are exhausted.
C30_PullBased ==
    [][ InRun =>
          /\ suspended =>
                /\ ~suspended'
                /\ << state, fs, events, yielded, extractor, pc, mi, si, ci, ri,
                      for_recovery, cities_to_process >>' =
                   << state, fs, events, yielded, extractor, pc, mi, si, ci, ri,
                      for_recovery, cities_to_process >>
          /\ yielded' # yielded =>
                /\ suspended'
                /\ Len(yielded') = Len(yielded) + 1
                /\ state'.processed = state.processed + 1
                /\ events'[Len(events')].kind = "yield"
                /\ events'[Len(events') - 1].kind \in {"replay", "success"}
          /\ fs' # fs =>
                /\ ~suspended /\ ~suspended'
                /\ pc \in {"dump", "dump_write", "dump_replace"}
                /\ ci > Len(cities_to_process)
          /\ DerivedStatistics(state') # DerivedStatistics(state) =>
                /\ pc = "final" /\ ~suspended
                /\ mi > Len(models)
      ]_vars

\* C30 witness: the last city of a pair has been delivered and the consumer
\* has not asked for more: the city is counted, the snapshot is not written.
C30_LastCityDeliveredNoSnapshot ==
    /\ suspended /\ pc = "extract"
    /\ ci > Len(cities_to_process)
    /\ for_recovery # <<>>
    /\ state.processed = Len(yielded) /\ Len(yielded) = 2
    /\ fs = EmptyDir

====
